---- MODULE Spec2Model ----
(***************************************************************************)
(* A model of the prefix tree of tilde-imports: the Trie (set) and TrieMap *)
(* (map) classes of src/utils, in their TypeScript and JavaScript builds.  *)
(* A node is a plain JavaScript object: an insertion-ordered list of       *)
(* own properties, each a token mapped to a child object or the SENTINEL   *)
(* key mapped to the payload.                                              *)
(***************************************************************************)
EXTENDS Integers, Sequences, FiniteSets, TLC

\* ------------------------------------------------------------- bounds ----

\* The longest token sequence passed to an operation: three tokens let a
\* branch marked for pruning be cancelled by a later node of the walk.
MaxLen == 3

\* The cap on the cached `size` counter: an inserting call is made only
\* while size is below it (or the sequence is already stored).
MaxSize == 2

\* ------------------------------------------------------------- inputs ----

\* The valid tokens (none equals the SENTINEL key).
Tokens == {"a", "b"}

\* Every token sequence of length 0..MaxLen.
Prefixes == UNION {[1..n -> Tokens] : n \in 0..MaxLen}

\* The payloads a caller passes to set().
Values == {"v1", "v2"}

\* The callbacks a caller passes to update(): an accumulator, one that
\* returns undefined, and one that raises.
UpdateFns == {"bump", "toUndefined", "raise"}

\* The two builds of the classes and the two classes.
Builds == {"ts", "js"}
Classes == {"Trie", "TrieMap"}

\* ---------------------------------------------- JavaScript object model ----

\* The reserved key of the terminal slot, String.fromCharCode(0).
SENTINEL == "NUL"

\* A property value is a child object or a primitive payload.
Obj(node) == [obj |-> node]
Val(p) == [val |-> p]
IsObj(v) == "obj" \in DOMAIN v

\* The value of a missing property.
Undefined == Val("undefined")

\* The empty object literal {}.
EmptyObj == <<>>

\* JavaScript truthiness of a property value.
Truthy(v) == IsObj(v) \/ v.val # "undefined"

\* `key in node`
In(key, node) == \E i \in 1..Len(node) : node[i].k = key

\* `node[key]`
Prop(node, key) ==
    IF In(key, node)
    THEN node[CHOOSE i \in 1..Len(node) : node[i].k = key].v
    ELSE Undefined

\* The integer a key denotes when it is a canonical array index ("1", "2"
\* among the tokens in use), else -1: own property keys are enumerated with
\* the array indices first, in ascending order, then the other strings in
\* the order of their creation.
ArrayIndex(key) == IF key = "1" THEN 1 ELSE IF key = "2" THEN 2 ELSE -1

\* `node[key] = v`: an existing property keeps its place; a new array index
\* goes after the smaller indices, any other new key is last.
Assign(node, key, v) ==
    IF In(key, node)
    THEN [i \in 1..Len(node) |->
            IF node[i].k = key THEN [k |-> key, v |-> v] ELSE node[i]]
    ELSE IF ArrayIndex(key) >= 0
    THEN LET isBefore(e) == ArrayIndex(e.k) >= 0
                            /\ ArrayIndex(e.k) < ArrayIndex(key)
             n == Len(SelectSeq(node, isBefore))
         IN  SubSeq(node, 1, n) \o <<[k |-> key, v |-> v]>>
             \o SubSeq(node, n + 1, Len(node))
    ELSE Append(node, [k |-> key, v |-> v])

\* `delete node[key]`
Remove(node, key) ==
    LET keep(e) == e.k # key IN SelectSeq(node, keep)

\* `Object.keys(node).length`
KeyCount(node) == Len(node)

\* ------------------------------------------------------------ walking ----

\* The loop `node = node[token]; if (typeof node === 'undefined') return`
\* of has/get/find: the value reached from v along prefix, or Undefined.
RECURSIVE Walk(_, _)
Walk(v, prefix) ==
    IF prefix = <<>> THEN v
    ELSE IF ~IsObj(v) THEN Undefined
    ELSE LET child == Prop(v.obj, Head(prefix))
         IN  IF ~IsObj(child) /\ child = Undefined THEN Undefined
             ELSE Walk(child, Tail(prefix))

\* The loop `node = node[token] || (node[token] = {})` of add/set/update:
\* the tree with every node of the path created.
RECURSIVE Ensure(_, _)
Ensure(node, prefix) ==
    IF prefix = <<>> THEN node
    ELSE LET token == Head(prefix)
             child == Prop(node, token)
             next  == IF Truthy(child) THEN child.obj ELSE EmptyObj
         IN  Assign(node, token, Obj(Ensure(next, Tail(prefix))))

\* An assignment `n[key] = v` to the node n that path reaches.
RECURSIVE AssignAt(_, _, _, _)
AssignAt(node, path, key, v) ==
    IF path = <<>> THEN Assign(node, key, v)
    ELSE Assign(node, Head(path),
                Obj(AssignAt(Prop(node, Head(path)).obj, Tail(path), key, v)))

\* `delete n[key]` on the node n that path reaches.
RECURSIVE RemoveAt(_, _, _)
RemoveAt(node, path, key) ==
    IF path = <<>> THEN Remove(node, key)
    ELSE Assign(node, Head(path),
                Obj(RemoveAt(Prop(node, Head(path)).obj, Tail(path), key)))

\* ---------------------------------------------------------------- has ----

Has(root, prefix) ==
    LET node == Walk(Obj(root), prefix)
    IN  IF ~IsObj(node) THEN FALSE ELSE In(SENTINEL, node.obj)

\* ------------------------------------------------- add / set / update ----

\* What a call hands back: how it ended ("return" or the error raised),
\* the value returned, and the tree and size it leaves.
Outcome(status, ret, root, size) ==
    [status |-> status, ret |-> ret, root |-> root, size |-> size]

\* The node a stored path ends at, after the insertion walk.
EndNode(root, prefix) == Walk(Obj(root), prefix).obj

\* The size update with a slip: the marker test is left out.
GrownAlways(node, size) == size + 1

\* `if (!(SENTINEL in node)) this.size++`
Grown(node, size) == IF In(SENTINEL, node) THEN size ELSE size + 1

Add(root, size, prefix) ==
    LET walked == Ensure(root, prefix)
        node   == EndNode(walked, prefix)
    IN  Outcome("return", "this",
                AssignAt(walked, prefix, SENTINEL, Val("true")),
                Grown(node, size))

Set(root, size, prefix, value) ==
    LET walked == Ensure(root, prefix)
        node   == EndNode(walked, prefix)
    IN  Outcome("return", "this",
                AssignAt(walked, prefix, SENTINEL, Val(value)),
                Grown(node, size))

\* The callbacks: "bump" counts (absent -> v1 -> v2), "toUndefined"
\* returns undefined; "raise" throws and has no result.
ApplyFn(fn, old) ==
    IF fn = "bump" THEN (IF old = Undefined THEN Val("v1") ELSE Val("v2"))
    ELSE Undefined

Update(root, size, prefix, fn) ==
    LET walked == Ensure(root, prefix)
        node   == EndNode(walked, prefix)
        grown  == Grown(node, size)
    IN  IF fn = "raise"
        THEN Outcome("Error", "none", walked, grown)
        ELSE Outcome("return", "this",
                     AssignAt(walked, prefix, SENTINEL,
                              ApplyFn(fn, Prop(node, SENTINEL))),
                     grown)

\* ------------------------------------------------------------- delete ----

NoPrune == [set |-> FALSE]
PruneAt(path, token) == [set |-> TRUE, path |-> path, token |-> token]

\* The walk of delete with a slip: a branch once marked for pruning stays
\* marked, whatever the later nodes hold.
RECURSIVE DeleteWalkNoCancel(_, _, _, _)
DeleteWalkNoCancel(node, prefix, i, toPrune) ==
    IF i > Len(prefix)
    THEN [missing |-> FALSE, node |-> node, toPrune |-> toPrune]
    ELSE LET token == prefix[i]
             child == Prop(node, token)
         IN  IF ~IsObj(child)
             THEN [missing |-> TRUE, node |-> node, toPrune |-> toPrune]
             ELSE LET n == KeyCount(child.obj)
                      tracked ==
                          IF toPrune.set THEN toPrune
                          ELSE (IF n < 2
                                THEN PruneAt(SubSeq(prefix, 1, i - 1), token)
                                ELSE NoPrune)
                  IN  DeleteWalkNoCancel(child.obj, prefix, i + 1, tracked)

\* The walk of delete from step i on: whether the path is missing, the node
\* reached, and the branch to prune (its parent's path and the token).
RECURSIVE DeleteWalk(_, _, _, _)
DeleteWalk(node, prefix, i, toPrune) ==
    IF i > Len(prefix)
    THEN [missing |-> FALSE, node |-> node, toPrune |-> toPrune]
    ELSE LET token == prefix[i]
             child == Prop(node, token)
         IN  IF ~IsObj(child)
             THEN [missing |-> TRUE, node |-> node, toPrune |-> toPrune]
             ELSE LET n == KeyCount(child.obj)
                      tracked ==
                          IF toPrune.set
                          THEN (IF n > 1 THEN NoPrune ELSE toPrune)
                          ELSE (IF n < 2
                                THEN PruneAt(SubSeq(prefix, 1, i - 1), token)
                                ELSE NoPrune)
                  IN  DeleteWalk(child.obj, prefix, i + 1, tracked)

\* delete with a slip: the marker is cleared and no branch is ever pruned.
DeleteTsNoPrune(root, size, prefix) ==
    LET w == DeleteWalk(root, prefix, 1, NoPrune)
    IN  IF w.missing THEN Outcome("return", FALSE, root, size)
        ELSE IF ~In(SENTINEL, w.node) THEN Outcome("return", FALSE, root, size)
        ELSE Outcome("return", TRUE, RemoveAt(root, prefix, SENTINEL),
                     size - 1)

\* delete of the TypeScript build.
DeleteTs(root, size, prefix) ==
    LET w == DeleteWalk(root, prefix, 1, NoPrune)
    IN  IF w.missing THEN Outcome("return", FALSE, root, size)
        ELSE IF ~In(SENTINEL, w.node) THEN Outcome("return", FALSE, root, size)
        ELSE Outcome("return", TRUE,
                     IF w.toPrune.set
                     THEN RemoveAt(root, w.toPrune.path, w.toPrune.token)
                     ELSE RemoveAt(root, prefix, SENTINEL),
                     size - 1)

\* delete of the JavaScript build: the loop condition `prefix.length < l`
\* reads the undeclared `l`, which raises before the first step.
DeleteJs(root, size, prefix) ==
    Outcome("ReferenceError", "none", root, size)

Delete(build, root, size, prefix) ==
    IF build = "ts" THEN DeleteTs(root, size, prefix)
    ELSE DeleteJs(root, size, prefix)

\* `this.root = {}; this.size = 0`
Clear == Outcome("return", "undefined", EmptyObj, 0)

\* ---------------------------------------------------------------- get ----

\* get with a slip: the walk stops one token short of the prefix.
GetShort(root, prefix) ==
    LET short == SubSeq(prefix, 1, Len(prefix) - 1)
        node == Walk(Obj(root), short)
    IN  IF ~IsObj(node) THEN "undefined"
        ELSE IF ~In(SENTINEL, node.obj) THEN "undefined"
        ELSE Prop(node.obj, SENTINEL).val

\* get: undefined when the path is missing or the node has no marker.
Get(root, prefix) ==
    LET node == Walk(Obj(root), prefix)
    IN  IF ~IsObj(node) THEN "undefined"
        ELSE IF ~In(SENTINEL, node.obj) THEN "undefined"
        ELSE Prop(node.obj, SENTINEL).val

\* -------------------------------------------------------- getPrefixes ----

\* The loop of getPrefixes from step i on: it descends first and tests the
\* payload of the node reached for truthiness.
RECURSIVE GetPrefixesLoop(_, _, _, _)
GetPrefixesLoop(node, value, i, prefixes) ==
    IF i > Len(value) THEN prefixes
    ELSE LET child == Prop(node, value[i])
         IN  IF ~IsObj(child) THEN prefixes
             ELSE GetPrefixesLoop(
                      child.obj, value, i + 1,
                      IF Truthy(Prop(child.obj, SENTINEL))
                      THEN Append(prefixes, SubSeq(value, 1, i))
                      ELSE prefixes)

GetPrefixes(root, value) == GetPrefixesLoop(root, value, 1, <<>>)

\* --------------------------------------------------------------- find ----

\* A stack entry of the depth-first walks: a node and the prefix it ends.
Entry(node, prefix) == [node |-> node, prefix |-> prefix]

\* The pushes with a slip: only the first child is pushed.
PushedFirst(node, prefix) ==
    LET isChild(e) == e.k # SENTINEL
        kids == SelectSeq(node, isChild)
    IN  [i \in 1..(IF Len(kids) > 0 THEN 1 ELSE 0) |->
            [node |-> kids[i].v.obj, prefix |-> Append(prefix, kids[i].k)]]

\* What `for (k in node)` pushes: every child, in property order.
Pushed(node, prefix) ==
    LET isChild(e) == e.k # SENTINEL
        kids == SelectSeq(node, isChild)
    IN  [i \in 1..Len(kids) |->
            Entry(kids[i].v.obj, Append(prefix, kids[i].k))]

\* The loop of find with a slip: shift() for pop(), so the nodes are taken
\* from the front of the stack.
RECURSIVE FindLoopShift(_, _, _)
FindLoopShift(stack, matches, pairs) ==
    IF stack = <<>> THEN matches
    ELSE LET top  == stack[1]
             rest == SubSeq(stack, 2, Len(stack))
             match == IF pairs
                      THEN <<top.prefix, Prop(top.node, SENTINEL).val>>
                      ELSE top.prefix
         IN  FindLoopShift(rest \o Pushed(top.node, top.prefix),
                           IF In(SENTINEL, top.node)
                           THEN Append(matches, match) ELSE matches,
                           pairs)

\* The `while (nodeStack.length)` loop of find; pairs is TRUE for TrieMap,
\* whose matches are [prefix, value] pairs.
RECURSIVE FindLoop(_, _, _)
FindLoop(stack, matches, pairs) ==
    IF stack = <<>> THEN matches
    ELSE LET top  == stack[Len(stack)]
             rest == SubSeq(stack, 1, Len(stack) - 1)
             match == IF pairs
                      THEN <<top.prefix, Prop(top.node, SENTINEL).val>>
                      ELSE top.prefix
         IN  FindLoop(rest \o Pushed(top.node, top.prefix),
                      IF In(SENTINEL, top.node)
                      THEN Append(matches, match) ELSE matches,
                      pairs)

Find(class, root, prefix) ==
    LET node == Walk(Obj(root), prefix)
    IN  IF ~IsObj(node) THEN <<>>
        ELSE FindLoop(<<Entry(node.obj, prefix)>>, <<>>, class = "TrieMap")

\* ------------------------------------------- prefixes / values / entries ----

\* What a traversal yields for a node.
Yielded(kind, e) ==
    IF kind = "prefixes" THEN e.prefix
    ELSE IF kind = "values" THEN Prop(e.node, SENTINEL).val
    ELSE <<e.prefix, Prop(e.node, SENTINEL).val>>

\* The generator loop of the TypeScript build, consumed to its end:
\* hasValue is set when a marker is seen and is never reset.
RECURSIVE IterLoop(_, _, _, _)
IterLoop(kind, stack, hasValue, out) ==
    IF stack = <<>> THEN out
    ELSE LET top  == stack[Len(stack)]
             rest == SubSeq(stack, 1, Len(stack) - 1)
             seen == hasValue \/ In(SENTINEL, top.node)
         IN  IterLoop(kind, rest \o Pushed(top.node, top.prefix), seen,
                      IF seen THEN Append(out, Yielded(kind, top)) ELSE out)

\* The traversal with a slip: the subtree it walks is detached from the
\* tree as it goes, so the tree is left without the starting node's marker.
IterateTsDetaching(kind, root, size, prefix) ==
    LET node == Walk(Obj(root), prefix)
    IN  Outcome("return",
                IF ~IsObj(node) THEN <<>>
                ELSE IterLoop(kind, <<Entry(node.obj, prefix)>>, FALSE, <<>>),
                IF IsObj(node) /\ In(SENTINEL, node.obj)
                THEN RemoveAt(root, prefix, SENTINEL) ELSE root,
                size)

IterateTs(kind, root, size, prefix) ==
    LET node == Walk(Obj(root), prefix)
    IN  Outcome("return",
                IF ~IsObj(node) THEN <<>>
                ELSE IterLoop(kind, <<Entry(node.obj, prefix)>>, FALSE, <<>>),
                root, size)

\* The JavaScript build: prefixes assigns the undeclared nodeStack and
\* entries reads the undeclared prefix, both ReferenceErrors in class code;
\* values returns a generator function, which is not iterable, unless the
\* prefix is missing.
IterateJs(kind, root, size, prefix) ==
    IF kind = "values"
    THEN IF ~IsObj(Walk(Obj(root), prefix))
         THEN Outcome("return", <<>>, root, size)
         ELSE Outcome("TypeError", "none", root, size)
    ELSE Outcome("ReferenceError", "none", root, size)

Iterate(b, kind, root, size, prefix) ==
    IF b = "ts" THEN IterateTs(kind, root, size, prefix)
    ELSE IterateJs(kind, root, size, prefix)

\* -------------------------------------------------------------- state ----

VARIABLES
    build,  \* which build of the classes runs
    cls,    \* the class of the instance
    root,   \* this.root
    size,   \* this.size
    op,     \* the observed call, the last one of the run: its name and
            \* arguments, the tree and size it found, how it ended and
            \* what it returned; the calls before it go unrecorded
    packageJsonFilepathsArray,
            \* the package.json files the glob found, in its order
    partCaseMap,
            \* per part index, the lower-cased part mapped to its casing
    failed, \* an expandTildeImport request of the run has raised
    pending,
            \* the items of a from() input still to be inserted by hand
    iterators,
            \* the traversals opened by prefixes/values/entries calls: where
            \* each stands and what it has yielded so far
    created
            \* history: the sequences inserted one by one, in call order

vars == <<build, cls, root, size, op, packageJsonFilepathsArray,
         partCaseMap, failed, pending, iterators, created>>

Call(name, prefix, arg, root0, size0, status, ret) ==
    [name |-> name, prefix |-> prefix, arg |-> arg,
     root0 |-> root0, size0 |-> size0, status |-> status, ret |-> ret]

\* No call is observed yet.
NoCall == Call("new", <<>>, "none", EmptyObj, 0, "return", "this")

\* new Trie() / new TrieMap(): the constructor calls clear().
Init ==
    /\ build \in Builds
    /\ cls \in Classes
    /\ root = EmptyObj
    /\ size = 0
    /\ op = NoCall
    /\ packageJsonFilepathsArray = <<>>
    /\ partCaseMap = <<>>
    /\ failed = FALSE
    /\ pending = <<>>
    /\ iterators = <<>>
    /\ created = <<>>

\* The run goes on until a call is observed.
Running == op.name = "new"

\* A call that ends with outcome r, observed or not.
Do(name, prefix, arg, r) ==
    /\ root' = r.root
    /\ size' = r.size
    /\ \/ op' = op
       \/ op' = Call(name, prefix, arg, root, size, r.status, r.ret)
    /\ UNCHANGED <<build, cls, packageJsonFilepathsArray, partCaseMap, failed,
                   pending, iterators, created>>

\* An inserting call is made while the size counter is below its cap.
Room(prefix) == Has(root, prefix) \/ size < MaxSize

add ==
    /\ Running
    /\ cls = "Trie"
    /\ \E prefix \in Prefixes :
        /\ Room(prefix)
        /\ Do("add", prefix, "none", Add(root, size, prefix))

set ==
    /\ Running
    /\ cls = "TrieMap"
    /\ \E prefix \in Prefixes, value \in Values :
        /\ Room(prefix)
        /\ Do("set", prefix, value, Set(root, size, prefix, value))

update ==
    /\ Running
    /\ \E prefix \in Prefixes, fn \in UpdateFns :
        /\ Room(prefix)
        /\ Do("update", prefix, fn, Update(root, size, prefix, fn))

delete ==
    /\ Running
    /\ \E prefix \in Prefixes :
        Do("delete", prefix, "none", Delete(build, root, size, prefix))

clear ==
    /\ Running
    /\ Do("clear", <<>>, "none", Clear)

has ==
    /\ Running
    /\ \E prefix \in Prefixes :
        Do("has", prefix, "none",
           Outcome("return", Has(root, prefix), root, size))

get ==
    /\ Running
    /\ cls = "TrieMap"
    /\ \E prefix \in Prefixes :
        Do("get", prefix, "none",
           Outcome("return", Get(root, prefix), root, size))

getPrefixes ==
    /\ Running
    /\ cls = "Trie"
    /\ \E value \in Prefixes :
        Do("getPrefixes", value, "none",
           Outcome("return", GetPrefixes(root, value), root, size))

find ==
    /\ Running
    /\ \E prefix \in Prefixes :
        Do("find", prefix, "none",
           Outcome("return", Find(cls, root, prefix), root, size))

\* prefixes(prefix), also bound as keys, consumed to its end.
prefixes ==
    /\ Running
    /\ \E prefix \in Prefixes :
        Do("prefixes", prefix, "none",
           Iterate(build, "prefixes", root, size, prefix))

values ==
    /\ Running
    /\ cls = "TrieMap"
    /\ \E prefix \in Prefixes :
        Do("values", prefix, "none",
           Iterate(build, "values", root, size, prefix))

entries ==
    /\ Running
    /\ cls = "TrieMap"
    /\ \E prefix \in Prefixes :
        Do("entries", prefix, "none",
           Iterate(build, "entries", root, size, prefix))

Next ==
    \/ add
    \/ set
    \/ update
    \/ delete
    \/ clear
    \/ has
    \/ get
    \/ getPrefixes
    \/ find
    \/ prefixes
    \/ values
    \/ entries

Spec == Init /\ [][Next]_vars

\* The runs made of add, set and delete alone.
NextAddSetDelete ==
    \/ add
    \/ set
    \/ delete

SpecAddSetDelete == Init /\ [][NextAddSetDelete]_vars

\* ------------------------------------------------------------- claims ----

\* p is a prefix of s (s itself included).
IsPrefix(p, s) == Len(p) <= Len(s) /\ SubSeq(s, 1, Len(p)) = p

\* The stored sequences: those has() answers true for.
Stored(r) == {s \in Prefixes : Has(r, s)}

\* The paths that reach a node of the tree.
NodePaths(r) == {p \in Prefixes : IsObj(Walk(Obj(r), p))}

\* The observed call is `name`; it returned (did not raise).
Called(name) == op.name = name
Returned(name) == op.name = name /\ op.status = "return"

\* C1: after any sequence of add/set/update/delete/clear calls, size is the
\* number of sequences has() answers true for.
C1_SizeCountsStored == size = Cardinality(Stored(root))

\* C2: once add(s) or set(s, v) has returned, has(s) is true, and a stored
\* sequence stays stored across every call except a delete(s) that returns
\* true and clear().
C2_StoredUntilDeleted ==
    \A s \in Prefixes :
        /\ (op.name \in {"add", "set"} /\ op.prefix = s
              /\ op.status = "return") => Has(root, s)
        /\ (Has(op.root0, s) /\ op.name # "clear"
              /\ ~(Returned("delete") /\ op.prefix = s /\ op.ret = TRUE))
           => Has(root, s)

\* C2 witness: a delete of a three-token sequence returned true and its
\* stored proper prefix is still stored.
C2_Witness ==
    /\ Returned("delete") /\ op.ret = TRUE
    /\ Len(op.prefix) = 3
    /\ \E s \in Stored(root) : s # <<>> /\ IsPrefix(s, op.prefix)

\* C3: delete(s) with has(s) true returns true, lowers size by exactly 1,
\* makes has(s) false and leaves has(t) and get(t) of every other t as
\* they were.
C3_DeleteStored ==
    (Called("delete") /\ Has(op.root0, op.prefix)) =>
        /\ op.status = "return" /\ op.ret = TRUE
        /\ size = op.size0 - 1
        /\ ~Has(root, op.prefix)
        /\ \A t \in Prefixes \ {op.prefix} :
              /\ Has(root, t) = Has(op.root0, t)
              /\ Get(root, t) = Get(op.root0, t)

\* C4: delete(s) with has(s) false returns false and leaves size and the
\* whole tree unchanged.
C4_DeleteAbsent ==
    (Called("delete") /\ ~Has(op.root0, op.prefix)) =>
        /\ op.status = "return" /\ op.ret = FALSE
        /\ size = op.size0
        /\ root = op.root0

\* C5: after any sequence of add/set/delete calls no non-root node is dead:
\* each carries a marker or has a child, so the node paths are exactly the
\* prefixes of the stored sequences.
C5_NoDeadNode ==
    /\ \A p \in NodePaths(root) \ {<<>>} :
           LET node == Walk(Obj(root), p).obj
           IN  In(SENTINEL, node) \/ KeyCount(node) >= 1
    /\ NodePaths(root) \ {<<>>} =
           {p \in Prefixes \ {<<>>} :
               \E s \in Stored(root) : IsPrefix(p, s)}

\* C5 witness: a delete of a three-token sequence returned true, its whole
\* branch is gone from the root down and another sequence is still stored.
C5_Witness ==
    /\ Returned("delete") /\ op.ret = TRUE
    /\ Len(op.prefix) = 3
    /\ SubSeq(op.prefix, 1, 1) \notin NodePaths(root)
    /\ Stored(root) # {}

\* The prefixes of value that are stored, the empty one included, from
\* the shortest to the longest.
StoredPrefixes(r, value) ==
    LET cut == [n \in 1..(Len(value) + 1) |-> SubSeq(value, 1, n - 1)]
        stored(p) == Has(r, p)
    IN  SelectSeq(cut, stored)

\* C6: getPrefixes(s) returns exactly the stored sequences that are
\* prefixes of s, the empty sequence and s itself included when stored,
\* each once, from the shortest to the longest.
C6_GetPrefixesExact ==
    Called("getPrefixes") =>
        /\ op.status = "return"
        /\ op.ret = StoredPrefixes(op.root0, op.prefix)

\* The stored sequences that have p as a prefix.
StoredBelow(r, p) == {s \in Stored(r) : IsPrefix(p, s)}

\* The sequences of a list of matches: TrieMap lists [sequence, value].
Sequences(list) ==
    IF cls = "TrieMap" THEN [i \in 1..Len(list) |-> list[i][1]] ELSE list

\* The list has no element twice and its elements are those of the set.
ListsExactly(list, S) ==
    /\ \A i, j \in 1..Len(list) : list[i] = list[j] => i = j
    /\ {list[i] : i \in 1..Len(list)} = S

\* C7: find(p) returns each stored sequence that has p as a prefix exactly
\* once and nothing else: the empty list when p reaches no node, every
\* stored sequence when p is empty.
C7_FindExact ==
    Called("find") =>
        /\ op.status = "return"
        /\ ListsExactly(Sequences(op.ret), StoredBelow(op.root0, op.prefix))
        /\ ~IsObj(Walk(Obj(op.root0), op.prefix)) => op.ret = <<>>
        /\ op.prefix = <<>> => Len(op.ret) = Cardinality(Stored(op.root0))

\* C7 witness: find of a stored, non-empty prefix returned it and a longer
\* sequence.
C7_Witness ==
    /\ Returned("find")
    /\ op.prefix # <<>>
    /\ Len(op.ret) = 2
    /\ Has(root, op.prefix)

\* How often x occurs in the list.
Count(list, x) == Cardinality({i \in 1..Len(list) : list[i] = x})

\* C8: each of prefixes(p)/keys(p), values(p) and entries(p) yields one
\* item per stored sequence at or below p (the sequence, its payload or
\* the pair) and nothing for a node without a marker; with no prefix the
\* number of items is size.
C8_TraversalExact ==
    op.name \in {"prefixes", "values", "entries"} =>
        LET below == StoredBelow(op.root0, op.prefix)
        IN  /\ op.status = "return"
            /\ Len(op.ret) = Cardinality(below)
            /\ op.prefix = <<>> => Len(op.ret) = op.size0
            /\ op.name = "prefixes" => ListsExactly(op.ret, below)
            /\ op.name = "entries" =>
                   ListsExactly(op.ret,
                                {<<s, Get(op.root0, s)>> : s \in below})
            /\ op.name = "values" =>
                   \A v \in {Get(op.root0, s) : s \in below} :
                       Count(op.ret, v) =
                           Cardinality({s \in below : Get(op.root0, s) = v})

\* The tree without its payloads: the nodes, their keys and key order.
RECURSIVE Skeleton(_)
Skeleton(node) ==
    [i \in 1..Len(node) |->
        IF IsObj(node[i].v)
        THEN <<node[i].k, Skeleton(node[i].v.obj)>>
        ELSE <<node[i].k, <<>>>>]

\* C9: add(s) or set(s, v) with has(s) already true leaves size and the
\* node structure unchanged; set replaces the value, so get(s) is v.
C9_InsertIdempotent ==
    (op.name \in {"add", "set"} /\ Has(op.root0, op.prefix)) =>
        /\ op.status = "return"
        /\ size = op.size0
        /\ Skeleton(root) = Skeleton(op.root0)
        /\ Stored(root) = Stored(op.root0)
        /\ op.name = "set" => Get(root, op.prefix) = op.arg

\* C9 witness: set(s, v) on a stored non-empty s that held another value.
C9_Witness ==
    /\ Returned("set")
    /\ op.prefix # <<>>
    /\ Has(op.root0, op.prefix)
    /\ Get(op.root0, op.prefix) # op.arg
    /\ Get(root, op.prefix) = op.arg

\* C10: the empty sequence is stored in the root's own terminal slot: add
\* (or set) of it makes has(empty) true and raises size by 1 exactly once;
\* has(empty) is false while it is not stored, whatever else is; and
\* delete(empty) removes the root's marker alone, leaving every child
\* subtree and every other stored sequence as it was.
C10_EmptySequence ==
    /\ (op.name \in {"add", "set"} /\ op.prefix = <<>>) =>
          /\ op.status = "return"
          /\ In(SENTINEL, root) /\ Has(root, <<>>)
          /\ size = IF In(SENTINEL, op.root0)
                    THEN op.size0 ELSE op.size0 + 1
    /\ (Called("has") /\ op.prefix = <<>>) =>
          /\ op.status = "return"
          /\ op.ret = In(SENTINEL, op.root0)
    /\ (Called("delete") /\ op.prefix = <<>> /\ In(SENTINEL, op.root0)) =>
          /\ op.status = "return" /\ op.ret = TRUE
          /\ root = Remove(op.root0, SENTINEL)
          /\ size = op.size0 - 1
          /\ Stored(root) = Stored(op.root0) \ {<<>>}

\* C11: has, get and delete never raise, for any sequence in any state of
\* the tree: for an absent sequence has returns false, get returns
\* undefined and delete returns false.
C11_NeverRaise ==
    op.name \in {"has", "get", "delete"} =>
        /\ op.status = "return"
        /\ ~Has(op.root0, op.prefix) =>
               op.ret = IF op.name = "get" THEN "undefined" ELSE FALSE

\* I1: no node other than the root is without a marker and without a child.
I1(r) ==
    \A p \in NodePaths(r) \ {<<>>} :
        LET node == Walk(Obj(r), p).obj
        IN  In(SENTINEL, node) \/ KeyCount(node) >= 1

\* I2: the size counter is the number of terminal markers in the tree.
I2(r, n) ==
    n = Cardinality({p \in NodePaths(r) : In(SENTINEL, Walk(Obj(r), p).obj)})

\* C12: no operation is partial: whenever a call of add, set, update or
\* delete ends, by returning or because the callback of update raised, the
\* tree satisfies I1 and I2.
C12_NoPartialOperation ==
    op.name \in {"add", "set", "update", "delete"} =>
        /\ I1(root)
        /\ I2(root, size)

\* ------------------------------------------------- tilde-import expander ----

\* The deepest package directory, the most package.json files the glob
\* finds, and the most parts of an importer's directory.
MaxDepth == 2
MaxPackages == 2
MaxImporterDepth == 3

\* The directory names: "A" and "a" differ by letter case only.
Segs == {"A", "a", "b"}

\* String.prototype.toLowerCase on a part.
toLowerCase(part) == IF part = "A" THEN "a" ELSE part
LowerParts(parts) == [i \in 1..Len(parts) |-> toLowerCase(parts[i])]

\* A path string: whether it starts with '/', and its parts between the
\* slashes.
Path(abs, parts) == [abs |-> abs, parts |-> parts]

\* path.normalize: the '.' parts and the empty parts are dropped.
normalize(p) ==
    LET kept(part) == part \notin {".", ""}
    IN  Path(p.abs, SelectSeq(p.parts, kept))

\* `if (s.startsWith('/')) s = s.slice(1)`
StripSlash(p) == IF p.abs THEN Path(FALSE, p.parts) ELSE p

\* path.dirname of a normalized path: '.' for a relative path of one part.
dirname(p) ==
    IF Len(p.parts) > 1 THEN Path(p.abs, SubSeq(p.parts, 1, Len(p.parts) - 1))
    ELSE IF p.abs THEN Path(TRUE, <<>>)
    ELSE Path(FALSE, <<".">>)

\* s.split('/'): the empty string splits into [''], and the '/' a path
\* starts with leaves an empty first part.
split(p) ==
    (IF p.abs THEN <<"">> ELSE <<>>)
    \o (IF p.parts = <<>> THEN <<"">> ELSE p.parts)

\* path.join('/', ...parts): an absolute, normalized path.
join(parts) == normalize(Path(TRUE, parts))

\* The package directories a glob can find and their package.json files.
PackageDirs == UNION {[1..n -> Segs] : n \in 1..MaxDepth}
PackageJsonFilepath(dir) == Path(TRUE, Append(dir, "package.json"))

\* The results of glob.sync: lists of distinct package.json files.
GlobResults ==
    {l \in UNION {[1..n -> {PackageJsonFilepath(d) : d \in PackageDirs}] :
                      n \in 0..MaxPackages} :
        \A i, j \in 1..Len(l) : l[i] = l[j] => i = j}

\* The importer files: a file in a directory, written with or without
\* '.' parts.
ImporterFilepaths ==
    {Path(TRUE, Append(d, "f.ts")) :
        d \in UNION {[1..n -> Segs \cup {"."}] : n \in 1..MaxImporterDepth}}

\* The import specifiers '~/x', '~x', '~' and 'x'.
Specifier(head, rest) == [head |-> head, rest |-> rest]
Specifiers ==
    {Specifier("~/", <<"x">>), Specifier("~", <<"x">>),
     Specifier("~", <<>>), Specifier("", <<"x">>)}

\* A Map as its set of [key, value] entries.
MapHas(m, key) == \E e \in m : e[1] = key
MapGet(m, key) == (CHOOSE e \in m : e[1] = key)[2]
MapSet(m, key, value) == {e \in m : e[1] # key} \cup {<<key, value>>}

\* `partCaseMap[index] ??= new Map()`: index i is position i + 1.
OrNewMap(pcm, i) == IF i > Len(pcm) THEN Append(pcm, {}) ELSE pcm

\* The loop that records the casing of each part, from position i on.
RECURSIVE RecordCase(_, _, _, _)
RecordCase(pcm, normalizedParts, casedParts, i) ==
    IF i > Len(normalizedParts) THEN pcm
    ELSE LET m == OrNewMap(pcm, i)
         IN  RecordCase(
                 [m EXCEPT ![i] = MapSet(m[i], normalizedParts[i],
                                         casedParts[i])],
                 normalizedParts, casedParts, i + 1)

\* The body of the loop in the first version of the expander (part_001):
\* the normalized path is computed and stripped of its '/', and the
\* directory of the path as the glob gave it is what is split and stored.
AddPackageFirst(st, packageJsonFilepath) ==
    LET normalizedPackageJsonFilepath ==
            StripSlash(normalize(packageJsonFilepath))
        added == Add(st.root, st.size, split(dirname(packageJsonFilepath)))
    IN  [root |-> added.root, size |-> added.size,
         partCaseMap |-> st.partCaseMap]

\* The body of the loop over the package.json files: the TypeScript build
\* stores the lower-cased parts and records their casing, the JavaScript
\* build stores the parts as they are.
AddPackage(b, st, packageJsonFilepath) ==
    IF b = "part_001" THEN AddPackageFirst(st, packageJsonFilepath)
    ELSE
    LET normalizedPackageDirpath ==
            dirname(StripSlash(normalize(packageJsonFilepath)))
        casedParts == split(normalizedPackageDirpath)
        normalizedParts ==
            IF b = "ts" THEN LowerParts(casedParts) ELSE casedParts
        added == Add(st.root, st.size, normalizedParts)
    IN  [root |-> added.root, size |-> added.size,
         partCaseMap |->
             IF b = "ts"
             THEN RecordCase(st.partCaseMap, normalizedParts, casedParts, 1)
             ELSE st.partCaseMap]

RECURSIVE AddPackages(_, _, _)
AddPackages(b, st, files) ==
    IF files = <<>> THEN st
    ELSE AddPackages(b, AddPackage(b, st, Head(files)), Tail(files))

\* createTildeImportExpander, from the package.json files the glob found.
createTildeImportExpander(b, files) ==
    AddPackages(b, [root |-> EmptyObj, size |-> 0, partCaseMap |-> <<>>],
                files)

\* The casing restored part by part, from position i on: the map built so
\* far and the parts restored so far.
RECURSIVE RestoreCase(_, _, _, _)
RestoreCase(pcm, parts, i, restored) ==
    IF i > Len(parts) THEN [partCaseMap |-> pcm, parts |-> restored]
    ELSE LET m == OrNewMap(pcm, i)
         IN  RestoreCase(m, parts, i + 1,
                         Append(restored,
                                IF MapHas(m[i], parts[i])
                                THEN MapGet(m[i], parts[i])
                                ELSE parts[i]))

\* The package root with a slip: the last match is taken.
ChosenLast(importerPackageDirpathPartArrays) ==
    importerPackageDirpathPartArrays[Len(importerPackageDirpathPartArrays)]

\* `importerPackageDirpathPartArrays[0]`
Chosen(importerPackageDirpathPartArrays) ==
    importerPackageDirpathPartArrays[1]

\* How a request ends: by returning a value or raising, whether it warned,
\* and the case map it leaves.
Answer(status, value, warned, pcm) ==
    [status |-> status, value |-> value, warned |-> warned,
     partCaseMap |-> pcm]

\* `importSpecifier.replace('~/', 'src/')` / `.replace('~', '')`, as parts.
Replaced(importSpecifier) ==
    IF importSpecifier.head = "~/"
    THEN <<"src">> \o importSpecifier.rest
    ELSE importSpecifier.rest

\* The answer once the package roots are looked up, with a slip: an empty
\* lookup is not tested and the path is joined without a package root.
ResolveUnchecked(b, pcm, importSpecifier, arrays) ==
    LET found == IF Len(arrays) = 0 THEN <<>> ELSE Chosen(arrays)
        cased == IF b = "ts" THEN RestoreCase(pcm, found, 1, <<>>)
                 ELSE [partCaseMap |-> pcm, parts |-> found]
    IN  Answer("return", join(cased.parts \o Replaced(importSpecifier)),
               Len(arrays) > 1, cased.partCaseMap)

\* The answer once the package roots are looked up: an error when there is
\* none, a warning when there are several, the path in the first one.
Resolve(b, pcm, importSpecifier, arrays) ==
    IF Len(arrays) = 0 THEN Answer("Error", "none", FALSE, pcm)
    ELSE LET cased == IF b = "ts"
                      THEN RestoreCase(pcm, Chosen(arrays), 1, <<>>)
                      ELSE [partCaseMap |-> pcm, parts |-> Chosen(arrays)]
         IN  Answer("return",
                    join(cased.parts \o Replaced(importSpecifier)),
                    Len(arrays) > 1, cased.partCaseMap)

\* The parts the trie is asked about for an importer file.
ImporterParts(b, importerFilepath) ==
    LET n == normalize(importerFilepath)
    IN  split(StripSlash(IF b = "ts" THEN Path(n.abs, LowerParts(n.parts))
                         ELSE n))

\* The monorepo directory of the function that came before the expander
\* (part_000), as getProjectDirpath finds it: here the root directory.
monorepoDirpath == Path(TRUE, <<>>)

\* path.relative(from, to) for a directory `from` that is above `to`.
relative(from, to) ==
    LET n == normalize(to)
    IN  Path(FALSE, SubSeq(n.parts, Len(from.parts) + 1, Len(n.parts)))

\* array.slice(0, 2)
slice2(parts) == SubSeq(parts, 1, IF Len(parts) < 2 THEN Len(parts) ELSE 2)

\* expandTildeImport of part_000: no trie; the package is taken to be the
\* first two parts of the importer's path below the monorepo directory.
expandTildeImportFirst(pcm, importSpecifier, importerFilePath) ==
    IF importSpecifier.head = ""
    THEN Answer("return", importSpecifier, FALSE, pcm)
    ELSE LET packagePathslug ==
                 slice2(split(relative(monorepoDirpath, importerFilePath)))
         IN  Answer("return",
                    join(monorepoDirpath.parts \o packagePathslug
                         \o Replaced(importSpecifier)),
                    FALSE, pcm)

\* expandTildeImport with a slip: the specifier is not tested for its '~'
\* and is resolved in the package root like any other.
expandTildeImportUntested(b, r, pcm, importSpecifier, importerFilepath) ==
    Resolve(b, pcm, importSpecifier,
            GetPrefixes(r, ImporterParts(b, importerFilepath)))

expandTildeImport(b, r, pcm, importSpecifier, importerFilepath) ==
    IF b = "part_000"
    THEN expandTildeImportFirst(pcm, importSpecifier, importerFilepath)
    ELSE IF importSpecifier.head = ""
    THEN Answer("return", importSpecifier, FALSE, pcm)
    ELSE Resolve(b, pcm, importSpecifier,
                 GetPrefixes(r, ImporterParts(b, importerFilepath)))

\* The expander as createTildeImportExpander returns it.
InitExpander ==
    /\ build \in Builds
    /\ cls = "Trie"
    /\ packageJsonFilepathsArray \in GlobResults
    /\ LET st == createTildeImportExpander(build, packageJsonFilepathsArray)
       IN  /\ root = st.root
           /\ size = st.size
           /\ partCaseMap = st.partCaseMap
    /\ op = NoCall
    /\ failed = FALSE
    /\ pending = <<>>
    /\ iterators = <<>>
    /\ created = <<>>

\* A request to the expander, observed or not.
expand ==
    /\ Running
    /\ \E importSpecifier \in Specifiers,
          importerFilepath \in ImporterFilepaths :
         LET r == expandTildeImport(build, root, partCaseMap,
                                    importSpecifier, importerFilepath)
         IN  /\ partCaseMap' = r.partCaseMap
             /\ failed' = (failed \/ r.status = "Error")
             /\ \/ op' = op
                \/ op' = Call("expandTildeImport", importerFilepath,
                              importSpecifier, root, size, r.status,
                              [value |-> r.value, warned |-> r.warned])
             /\ UNCHANGED <<build, cls, root, size,
                            packageJsonFilepathsArray, pending, iterators,
                            created>>

NextExpander == expand

SpecExpander == InitExpander /\ [][NextExpander]_vars

\* The package directories discovered, as the parts of their paths.
Discovered ==
    {dirname(normalize(packageJsonFilepathsArray[i])).parts :
        i \in 1..Len(packageJsonFilepathsArray)}

\* The directory of a file, as the parts of its normalized path.
DirOf(filepath) == dirname(normalize(filepath)).parts

\* The observed call is a request with a specifier that starts with '~'.
TildeRequest == Called("expandTildeImport") /\ op.arg.head # ""

\* C13: for every discovered package directory D and every importer file
\* under D with no other discovered directory above it, expandTildeImport
\* returns D joined with 'src/<rest>' for '~/<rest>' and D joined with
\* '<rest>' for '~<rest>' (D itself for '~').
C13_ExpandsInPackage ==
    TildeRequest =>
        \A D \in Discovered :
            (/\ IsPrefix(D, DirOf(op.prefix))
             /\ \A E \in Discovered \ {D} : ~IsPrefix(E, DirOf(op.prefix)))
            => /\ op.status = "return"
               /\ op.ret.value =
                      normalize(Path(TRUE,
                          IF op.arg.head = "~/"
                          THEN D \o <<"src">> \o op.arg.rest
                          ELSE D \o op.arg.rest))

\* What getPrefixes answers for the importer of the observed request.
ImporterPackageDirpathPartArrays ==
    GetPrefixes(op.root0, ImporterParts(build, op.prefix))

\* C14: when no stored package directory is above the importer and the
\* specifier starts with '~', the request raises an error; the package
\* trie is left as createTildeImportExpander built it, and a request with
\* a resolvable importer returns whatever requests failed before it.
C14_NoPackageRoot ==
    /\ (TildeRequest /\ ImporterPackageDirpathPartArrays = <<>>) =>
          /\ op.status = "Error"
          /\ root = op.root0 /\ size = op.size0
    /\ failed =>
          LET st == createTildeImportExpander(build,
                                              packageJsonFilepathsArray)
          IN  root = st.root /\ size = st.size
    /\ (TildeRequest /\ ImporterPackageDirpathPartArrays # <<>>) =>
          op.status = "return"

\* C14 witness: an earlier request has raised and the observed request,
\* with a '~' specifier and an importer inside a package, returned.
C14_Witness ==
    /\ failed
    /\ TildeRequest
    /\ op.status = "return"
    /\ ImporterPackageDirpathPartArrays # <<>>

\* The parts of a path as the trie of the build holds them.
Tokenized(parts) == IF build = "ts" THEN LowerParts(parts) ELSE parts

\* C15: when more than one stored package directory is above the importer
\* (nested package roots), the request warns, does not raise, and resolves
\* against the first element of getPrefixes, the shortest stored ancestor.
C15_NestedRoots ==
    (TildeRequest /\ Len(ImporterPackageDirpathPartArrays) > 1) =>
        LET first == ImporterPackageDirpathPartArrays[1]
            parts == ImporterParts(build, op.prefix)
        IN  /\ op.status = "return"
            /\ op.ret.warned
            /\ Tokenized(op.ret.value.parts) =
                   first \o (IF op.arg.head = "~/"
                             THEN <<"src">> \o op.arg.rest
                             ELSE op.arg.rest)
            /\ IsPrefix(first, parts) /\ Has(op.root0, first)
            /\ \A n \in 1..Len(parts) :
                   Has(op.root0, SubSeq(parts, 1, n)) => n >= Len(first)

\* C15 witness: a '~/' request from an importer inside two nested package
\* roots returned with a warning.
C15_Witness ==
    /\ TildeRequest
    /\ op.arg.head = "~/"
    /\ Len(ImporterPackageDirpathPartArrays) = 2
    /\ op.status = "return"
    /\ op.ret.warned

\* C16: the set variant carries presence only: get, set, values and entries
\* are not callable on a Trie, and after any sequence of the operations a
\* Trie offers every terminal payload is `true`, so getPrefixes (payload
\* truthiness) and has (marker existence) agree on every sequence.
C16_PresenceOnly ==
    cls = "Trie" =>
        /\ op.name \notin {"get", "set", "values", "entries"}
        /\ \A s \in Stored(root) : Get(root, s) = "true"
        /\ \A s \in Prefixes :
               Has(root, s) <=>
                   \E i \in 1..Len(GetPrefixes(root, s)) :
                       GetPrefixes(root, s)[i] = s

\* --------------------------------------------------------------- from ----

\* The most items of an input of from().
MaxInput == 2

\* The inputs of Trie.from: iterables of sequences.
Iterables ==
    {[kind |-> "iterable", items |-> l] :
        l \in UNION {[1..n -> Prefixes] : n \in 0..MaxInput}}

\* The inputs of TrieMap.from: (key, value) pairs with distinct keys, held
\* by a plain object, as its properties, or by a Map.
PairLists ==
    {l \in UNION {[1..n -> Prefixes \X Values] : n \in 0..MaxInput} :
        \A i, j \in 1..Len(l) : l[i][1] = l[j][1] => i = j}
PairInputs == {[kind |-> k, items |-> l] : k \in {"object", "Map"},
                                           l \in PairLists}

\* Object.entries: the own enumerable properties; a Map has none.
ObjectEntries(input) == IF input.kind = "object" THEN input.items ELSE <<>>

\* `for (const value of array) trie.add(value)`
RECURSIVE TrieFromLoop(_, _)
TrieFromLoop(trie, items) ==
    IF items = <<>> THEN trie
    ELSE LET r == Add(trie.root, trie.size, Head(items))
         IN  TrieFromLoop([root |-> r.root, size |-> r.size], Tail(items))

\* `for (const [key, value] of Object.entries(object)) trie.set(key, value)`
RECURSIVE TrieMapFromLoop(_, _)
TrieMapFromLoop(trie, pairs) ==
    IF pairs = <<>> THEN trie
    ELSE LET r == Set(trie.root, trie.size, Head(pairs)[1],
                      Head(pairs)[2])
         IN  TrieMapFromLoop([root |-> r.root, size |-> r.size],
                             Tail(pairs))

\* Trie.from(array) / TrieMap.from(object): the trie returned.
From(class, input) ==
    IF class = "Trie"
    THEN TrieFromLoop([root |-> EmptyObj, size |-> 0], input.items)
    ELSE TrieMapFromLoop([root |-> EmptyObj, size |-> 0],
                         ObjectEntries(input))

\* from() has returned its trie; a fresh trie is about to be populated by
\* hand with the items of the same input.
InitFrom ==
    /\ build \in Builds
    /\ cls \in Classes
    /\ root = EmptyObj
    /\ size = 0
    /\ \E input \in Iterables \cup PairInputs :
         /\ (cls = "Trie") <=> (input.kind = "iterable")
         /\ pending = input.items
         /\ op = Call("from", <<>>, input, EmptyObj, 0, "return",
                      From(cls, input))
    /\ packageJsonFilepathsArray = <<>>
    /\ partCaseMap = <<>>
    /\ failed = FALSE
    /\ iterators = <<>>
    /\ created = <<>>

\* The caller inserts the next item: add(s), or set(key, value).
populate ==
    /\ op.name = "from"
    /\ pending # <<>>
    /\ LET item == Head(pending)
           r == IF cls = "Trie" THEN Add(root, size, item)
                ELSE Set(root, size, item[1], item[2])
       IN  /\ root' = r.root
           /\ size' = r.size
    /\ pending' = Tail(pending)
    /\ UNCHANGED <<build, cls, op, packageJsonFilepathsArray, partCaseMap,
                   failed, iterators, created>>

NextFrom == populate

SpecFrom == InitFrom /\ [][NextFrom]_vars

\* What every traversal of a trie gives, from every starting prefix: how
\* the call ends and, when it returns, the items.
Traversals(b, class, r, n) ==
    [kind \in {"find", "prefixes", "values", "entries"}, p \in Prefixes |->
        IF kind = "find" THEN <<"return", Find(class, r, p)>>
        ELSE LET it == Iterate(b, kind, r, n, p)
             IN  IF it.status = "return" THEN <<"return", it.ret>>
                 ELSE <<it.status, <<>>>>]

\* C17: the trie from() returns is equivalent to a fresh trie populated by
\* add(s) for each sequence, or set(k, v) for each (key, value) pair, of
\* the input in order: same size, same has and get, same traversals.
C17_FromIsRepeatedInsert ==
    (op.name = "from" /\ pending = <<>>) =>
        /\ size = op.ret.size
        /\ \A s \in Prefixes :
               /\ Has(root, s) = Has(op.ret.root, s)
               /\ Get(root, s) = Get(op.ret.root, s)
        /\ Traversals(build, cls, root, size) =
               Traversals(build, cls, op.ret.root, op.ret.size)

\* ------------------------------------------- the marker used as a token ----

\* The longest sequence inserted when any string may be a token.
MaxAnyLen == 2

\* Any string is accepted as a token, String.fromCharCode(0) included.
AnyTokens == Tokens \cup {SENTINEL}
AnyPrefixes == UNION {[1..n -> AnyTokens] : n \in 0..MaxAnyLen}

\* How a walk ends: by returning or raising, the value returned, the node
\* it leaves and whether size is to be raised.
Walked(status, ret, node, grew) ==
    [status |-> status, ret |-> ret, node |-> node, grew |-> grew]

\* add/set from a node on, for any tokens: `node[token] || (node[token] =
\* {})` steps into a truthy payload when the token is the SENTINEL key;
\* creating a property on a primitive, and `SENTINEL in` a primitive, raise
\* a TypeError in class code.
RECURSIVE InsertFrom(_, _, _)
InsertFrom(node, prefix, payload) ==
    IF prefix = <<>>
    THEN Walked("return", "this", Assign(node, SENTINEL, Val(payload)),
                ~In(SENTINEL, node))
    ELSE LET token == Head(prefix)
             child == Prop(node, token)
         IN  IF Truthy(child) /\ ~IsObj(child)
             THEN Walked("TypeError", "none", node, FALSE)
             ELSE LET next == IF Truthy(child) THEN child.obj ELSE EmptyObj
                      r == InsertFrom(next, Tail(prefix), payload)
                  IN  Walked(r.status, r.ret,
                             Assign(node, token, Obj(r.node)), r.grew)

\* add(prefix) / set(prefix, value) for any tokens.
Insert(tree, n, prefix, payload) ==
    LET r == InsertFrom(tree, prefix, payload)
    IN  Outcome(r.status, r.ret, r.node, IF r.grew THEN n + 1 ELSE n)

\* has from a value on, for any tokens: a step from a primitive, or to an
\* undefined value, returns false; `SENTINEL in` a primitive raises.
RECURSIVE HasFrom(_, _)
HasFrom(v, prefix) ==
    IF prefix = <<>>
    THEN IF IsObj(v) THEN [status |-> "return", ret |-> In(SENTINEL, v.obj)]
         ELSE [status |-> "TypeError", ret |-> FALSE]
    ELSE IF ~IsObj(v) THEN [status |-> "return", ret |-> FALSE]
    ELSE LET child == Prop(v.obj, Head(prefix))
         IN  IF ~IsObj(child) /\ child = Undefined
             THEN [status |-> "return", ret |-> FALSE]
             ELSE HasFrom(child, Tail(prefix))

\* add of a sequence of any tokens.
addAnyToken ==
    /\ Running
    /\ cls = "Trie"
    /\ size < MaxSize
    /\ \E prefix \in AnyPrefixes :
        Do("add", prefix, "none", Insert(root, size, prefix, "true"))

\* set of a sequence of any tokens.
setAnyToken ==
    /\ Running
    /\ cls = "TrieMap"
    /\ size < MaxSize
    /\ \E prefix \in AnyPrefixes, value \in Values :
        Do("set", prefix, value, Insert(root, size, prefix, value))

\* has of a sequence of any tokens.
hasAnyToken ==
    /\ Running
    /\ \E prefix \in AnyPrefixes :
        LET r == HasFrom(Obj(root), prefix)
        IN  Do("has", prefix, "none", Outcome(r.status, r.ret, root, size))

NextAnyToken ==
    \/ addAnyToken
    \/ setAnyToken
    \/ hasAnyToken

SpecAnyToken == Init /\ [][NextAnyToken]_vars

\* C18: the terminal marker is distinguishable from every token: no token
\* of an inserted sequence is read as a marker and distinct sequences share
\* no terminal slot, so add(s) / set(s, v) returns, changes has(t) for no
\* sequence t other than s, and raises size by at most 1.
C18_MarkerApart ==
    (op.name \in {"add", "set"}) =>
        /\ op.status = "return"
        /\ HasFrom(Obj(root), op.prefix) =
               [status |-> "return", ret |-> TRUE]
        /\ \A t \in AnyPrefixes \ {op.prefix} :
               HasFrom(Obj(root), t) = HasFrom(Obj(op.root0), t)
        /\ size \in {op.size0, op.size0 + 1}

\* The payload in the terminal slot of a stored sequence.
Payload(r, s) == Prop(Walk(Obj(r), s).obj, SENTINEL).val

\* The observed call stored into the slot of t, or removed it.
Rewrote(t) ==
    \/ op.name = "clear"
    \/ /\ op.name \in {"set", "update", "delete"}
       /\ op.prefix = t
       /\ op.status = "return"

\* The payload of every stored sequence is the one most recently stored for
\* it: set and update store theirs and no other call touches a payload.
LastStoredKept ==
    /\ Returned("set") => Payload(root, op.prefix) = op.arg
    /\ Returned("update") =>
           Payload(root, op.prefix) =
               ApplyFn(op.arg,
                       IF Has(op.root0, op.prefix)
                       THEN Val(Payload(op.root0, op.prefix))
                       ELSE Undefined).val
    /\ \A t \in Stored(op.root0) :
           ~Rewrote(t) =>
               Has(root, t) /\ Payload(root, t) = Payload(op.root0, t)

\* C19: for the map variant get(s) returns the payload most recently stored
\* for s by set or update when has(s) is true, and returns undefined
\* exactly when has(s) is false.
C19_GetExact ==
    cls = "TrieMap" =>
        /\ LastStoredKept
        /\ Called("get") =>
              /\ op.status = "return"
              /\ Has(op.root0, op.prefix) =>
                     op.ret = Payload(op.root0, op.prefix)
              /\ (op.ret = "undefined") <=> ~Has(op.root0, op.prefix)

\* C19 as amended: get(s) returns the payload most recently stored for s
\* when has(s) is true, and undefined whenever has(s) is false; a stored
\* payload that is itself undefined is returned as such.
C19_GetStored ==
    cls = "TrieMap" =>
        /\ LastStoredKept
        /\ Called("get") =>
              /\ op.status = "return"
              /\ Has(op.root0, op.prefix) =>
                     op.ret = Payload(op.root0, op.prefix)
              /\ ~Has(op.root0, op.prefix) => op.ret = "undefined"

\* C19 witness: get of a stored sequence of two tokens or more returned its
\* payload, the second value an update stored there.
C19_Witness ==
    /\ cls = "TrieMap"
    /\ Returned("get")
    /\ Len(op.prefix) >= 2
    /\ Has(op.root0, op.prefix)
    /\ op.ret = "v2"

\* ------------------------------------------------- lazy traversal, live ----

\* The most traversals open at once, the longest sequence stored before
\* they are opened and the longest starting prefix.
MaxIterators == 2
MaxStoredLen == 2
MaxStartLen == 1

StoredSequences == UNION {[1..n -> Tokens] : n \in 0..MaxStoredLen}
StartPrefixes == UNION {[1..n -> Tokens] : n \in 0..MaxStartLen}

\* What a traversal call hands back: how the call ended, its arguments,
\* where the generator stands ("start", "loop" or "done"), its node stack
\* and hasValue flag, and the items it has yielded.
Generator(status, kind, prefix, pc, stack, hasValue, out) ==
    [status |-> status, kind |-> kind, prefix |-> prefix, pc |-> pc,
     stack |-> stack, hasValue |-> hasValue, out |-> out]

\* The while loop of a generator run from where it stands to its next
\* yield, or to its end.
RECURSIVE Resume(_, _, _)
Resume(kind, stack, hasValue) ==
    IF stack = <<>>
    THEN [done |-> TRUE, stack |-> stack, hasValue |-> hasValue,
          items |-> <<>>]
    ELSE LET top  == stack[Len(stack)]
             rest == SubSeq(stack, 1, Len(stack) - 1)
             seen == hasValue \/ In(SENTINEL, top.node)
             more == rest \o Pushed(top.node, top.prefix)
         IN  IF seen
             THEN [done |-> FALSE, stack |-> more, hasValue |-> seen,
                   items |-> <<Yielded(kind, top)>>]
             ELSE Resume(kind, more, seen)

\* A call of prefixes/values/entries: the TypeScript build returns a
\* generator that has not run yet; the JavaScript build raises, or returns
\* something that yields nothing.
Opened(b, kind, r, n, prefix) ==
    IF b = "ts"
    THEN Generator("return", kind, prefix, "start", <<>>, FALSE, <<>>)
    ELSE Generator(IterateJs(kind, r, n, prefix).status, kind, prefix,
                   "done", <<>>, FALSE, <<>>)

\* next() on a generator of the TypeScript build: the first call resolves
\* the starting prefix, every call runs to the next yield or to the end.
Advanced(g, r) ==
    LET node == Walk(Obj(r), g.prefix)
        from == IF g.pc = "start" THEN <<Entry(node.obj, g.prefix)>>
                ELSE g.stack
        run  == Resume(g.kind, from, g.hasValue)
    IN  IF g.pc = "start" /\ ~IsObj(node)
        THEN [g EXCEPT !.pc = "done"]
        ELSE [g EXCEPT !.pc = IF run.done THEN "done" ELSE "loop",
                       !.stack = run.stack,
                       !.hasValue = run.hasValue,
                       !.out = g.out \o run.items]

\* Sequences are stored before any traversal is opened.
fill ==
    /\ iterators = <<>>
    /\ size < MaxSize
    /\ \E prefix \in StoredSequences, value \in Values :
         LET r == IF cls = "Trie" THEN Add(root, size, prefix)
                  ELSE Set(root, size, prefix, value)
         IN  /\ root' = r.root
             /\ size' = r.size
    /\ UNCHANGED <<build, cls, op, packageJsonFilepathsArray, partCaseMap,
                   failed, pending, iterators, created>>

\* A fresh call of prefixes (keys), values or entries.
open ==
    /\ Len(iterators) < MaxIterators
    /\ \E kind \in {"prefixes", "values", "entries"},
          prefix \in StartPrefixes :
         /\ kind # "prefixes" => cls = "TrieMap"
         /\ iterators' =
                Append(iterators, Opened(build, kind, root, size, prefix))
    /\ UNCHANGED <<build, cls, root, size, op, packageJsonFilepathsArray,
                   partCaseMap, failed, pending, created>>

\* next() on one of the open traversals.
next ==
    /\ \E i \in 1..Len(iterators) :
         /\ iterators[i].pc # "done"
         /\ iterators' =
                [iterators EXCEPT ![i] = Advanced(iterators[i], root)]
    /\ UNCHANGED <<build, cls, root, size, op, packageJsonFilepathsArray,
                   partCaseMap, failed, pending, created>>

NextIterators ==
    \/ fill
    \/ open
    \/ next

SpecIterators == Init /\ [][NextIterators]_vars

\* C20: lazy traversal is restartable: on a trie that is not mutated in
\* between, every fresh call of prefixes/keys, values or entries yields the
\* complete sequence from its beginning, the same as any other fresh call,
\* however many other traversals are open and however far they have got.
C20_Restartable ==
    \A i \in 1..Len(iterators) :
        LET g == iterators[i]
            complete == IterateTs(g.kind, root, size, g.prefix).ret
        IN  /\ g.status = "return"
            /\ Len(g.out) <= Len(complete)
            /\ g.out = SubSeq(complete, 1, Len(g.out))
            /\ g.pc = "done" => g.out = complete

\* ------------------------------------------------ read-only operations ----

\* Sequences are stored, traversals are opened and advanced one item at a
\* time and left where they stand, and one read call is observed on the
\* tree as stored.
NextReads ==
    \/ Running /\ fill
    \/ Running /\ open
    \/ Running /\ next
    \/ iterators = <<>> /\ has
    \/ iterators = <<>> /\ get
    \/ iterators = <<>> /\ getPrefixes
    \/ iterators = <<>> /\ find
    \/ iterators = <<>> /\ prefixes
    \/ iterators = <<>> /\ values
    \/ iterators = <<>> /\ entries

SpecReads == Init /\ [][NextReads]_vars

\* How far every open traversal has got.
Progress(its) == [i \in 1..Len(its) |-> <<its[i].pc, Len(its[i].out)>>]

\* A step of a read-only operation: the observed call of has, get, find,
\* getPrefixes or a traversal consumed to its end, the opening of a
\* traversal, or one more item taken from an open traversal.
ReadStep ==
    \/ op'.name # op.name
    \/ Progress(iterators') # Progress(iterators)

\* C21: read-only operations leave the tree unchanged: has, get, find,
\* getPrefixes and any traversal by keys/values/entries, consumed fully or
\* abandoned after any number of items, change neither the node structure,
\* nor any payload, nor size.
C21_ReadsLeaveTree == [][ReadStep => UNCHANGED <<root, size>>]_vars

\* Two sequences are stored, one traversal was consumed to its end and
\* another is abandoned after its first item.
C21_Witness ==
    /\ size = MaxSize
    /\ Len(iterators) = 2
    /\ iterators[1].pc = "done"
    /\ Len(iterators[1].out) = 2
    /\ iterators[2].pc = "loop"
    /\ Len(iterators[2].out) = 1

\* ------------------------------------------------------ the order of find ----

\* The most insertions of a run whose order is kept, and the longest
\* sequence inserted.
MaxCreated == 3
MaxCreatedLen == 2

\* Tokens of both kinds of property key: plain strings and array indices.
OrderTokens == {"a", "b", "1", "2"}
OrderPrefixes == UNION {[1..n -> OrderTokens] : n \in 0..MaxCreatedLen}

\* add(prefix) / set(prefix, value), the sequence noted in the history.
insert ==
    /\ Running
    /\ Len(created) < MaxCreated
    /\ \E prefix \in OrderPrefixes, value \in Values :
         LET r == IF cls = "Trie" THEN Add(root, size, prefix)
                  ELSE Set(root, size, prefix, value)
         IN  /\ root' = r.root
             /\ size' = r.size
             /\ created' = Append(created, prefix)
    /\ UNCHANGED <<build, cls, op, packageJsonFilepathsArray, partCaseMap,
                   failed, pending, iterators>>

NextFindOrder ==
    \/ insert
    \/ find

SpecFindOrder == Init /\ [][NextFindOrder]_vars

\* When the child for token t of the node that path c reaches was created:
\* the first insertion of a sequence that goes through it.
CreatedAt(c, t) ==
    CHOOSE i \in 1..Len(created) :
        /\ IsPrefix(Append(c, t), created[i])
        /\ \A j \in 1..(i - 1) : ~IsPrefix(Append(c, t), created[j])

\* The child for s comes before the child for t when the keys of the node
\* at c are enumerated: array indices ascending, then the other keys as
\* created.
EnumeratedBefore(c, s, t) ==
    IF ArrayIndex(s) >= 0 /\ ArrayIndex(t) >= 0
    THEN ArrayIndex(s) < ArrayIndex(t)
    ELSE IF ArrayIndex(s) >= 0 THEN TRUE
    ELSE IF ArrayIndex(t) >= 0 THEN FALSE
    ELSE CreatedAt(c, s) < CreatedAt(c, t)

\* The sequences find returned, in its order.
Found == [i \in 1..Len(op.ret) |->
            IF cls = "TrieMap" THEN op.ret[i][1] ELSE op.ret[i]]

\* Where two sequences, neither a prefix of the other, part.
Fork(s, t) ==
    CHOOSE d \in 1..Len(s) :
        s[d] # t[d] /\ SubSeq(s, 1, d - 1) = SubSeq(t, 1, d - 1)

\* The matches are in pre-order: a sequence before its extensions, and of
\* two branches of a node the one that Later(c, s, t) puts first.
PreOrder(Later(_, _, _)) ==
    \A i, j \in 1..Len(Found) :
        i < j =>
            LET s == Found[i]
                t == Found[j]
            IN  /\ ~IsPrefix(t, s)
                /\ ~IsPrefix(s, t) =>
                       LET d == Fork(s, t)
                       IN  Later(SubSeq(s, 1, d - 1), s[d], t[d])

CreatedLater(c, s, t) == CreatedAt(c, s) > CreatedAt(c, t)
EnumeratedLater(c, s, t) == EnumeratedBefore(c, t, s)

\* C22: find(p) returns its matches in stack-based depth-first pre-order:
\* a stored sequence is listed before every stored sequence that extends
\* it, and the child branches of a node are visited in the reverse of the
\* order in which those children were created.
C22_FindCreationOrder ==
    (op.name = "find" /\ op.status = "return") => PreOrder(CreatedLater)

\* C22 as amended: a stored sequence is listed before every stored
\* sequence that extends it, and the child branches of a node are visited
\* in the reverse of the order in which its keys are enumerated: array
\* indices in ascending order first, then the other tokens as created.
C22_FindEnumerationOrder ==
    (op.name = "find" /\ op.status = "return") => PreOrder(EnumeratedLater)

\* find has listed a sequence, its extension and a sibling branch, where
\* the sibling created first is an array index and the other is not.
C22_Witness ==
    /\ op.name = "find"
    /\ Len(op.ret) = 3
    /\ \E i, j, k \in 1..3 :
         /\ i < j
         /\ IsPrefix(Found[i], Found[j])
         /\ ~IsPrefix(Found[i], Found[k])
         /\ ~IsPrefix(Found[k], Found[i])
    /\ Len(created) = MaxCreated
    /\ \E s, t \in OrderTokens :
         /\ ArrayIndex(s) >= 0
         /\ ArrayIndex(t) < 0
         /\ created[1] = <<s>>
         /\ created[2] = <<t>>

\* ------------------------------------------- the versions of the expander ----

\* The expander of either build, and its first version (part_001), which
\* runs on the JavaScript trie and answers requests as the JavaScript
\* build does.
Versions == Builds \cup {"part_001"}

\* The expander of any version, as createTildeImportExpander returns it.
InitVersions ==
    /\ build \in Versions
    /\ cls = "Trie"
    /\ packageJsonFilepathsArray \in GlobResults
    /\ LET st == createTildeImportExpander(build, packageJsonFilepathsArray)
       IN  /\ root = st.root
           /\ size = st.size
           /\ partCaseMap = st.partCaseMap
    /\ op = NoCall
    /\ failed = FALSE
    /\ pending = <<>>
    /\ iterators = <<>>
    /\ created = <<>>

SpecVersions == InitVersions /\ [][NextExpander]_vars

\* The tokens expandTildeImport derives for a directory from the path of
\* an importer file in it.
DerivedParts(dir) ==
    LET parts == ImporterParts(build, Path(TRUE, Append(dir, "f.ts")))
    IN  SubSeq(parts, 1, Len(parts) - 1)

\* C23: in createTildeImportExpander, the token sequence under which a
\* discovered package directory is stored in the trie equals the token
\* sequence that expandTildeImport derives for that same directory from an
\* importer path, so getPrefixes is non-empty for every importer file
\* located inside a discovered package directory.
C23_StoredAsDerived ==
    /\ Called("expandTildeImport") =>
          \A D \in Discovered : Has(op.root0, DerivedParts(D))
    /\ TildeRequest =>
          \A D \in Discovered :
              IsPrefix(D, DirOf(op.prefix)) =>
                  /\ ImporterPackageDirpathPartArrays # <<>>
                  /\ op.status = "return"

\* The package root of the path a request returned: the parts before
\* those that replace the specifier.
ReturnedRoot ==
    SubSeq(op.ret.value.parts, 1,
           Len(op.ret.value.parts) - Len(Replaced(op.arg)))

\* C24: in the case-insensitive expander, the package root returned by
\* expandTildeImport carries the exact original letter case of the
\* discovered package directory that matched the importer, for every set
\* of discovered package directories, those where two directories have, at
\* the same depth, segments that differ only by letter case included.
C24_OriginalCase ==
    (build = "ts" /\ TildeRequest /\ op.status = "return") =>
        \E D \in Discovered :
            /\ LowerParts(D) = ImporterPackageDirpathPartArrays[1]
            /\ ReturnedRoot = D

\* expandTildeImport of part_000: a function of the monorepo directory,
\* with no trie behind it.
InitFirst ==
    /\ build = "part_000"
    /\ cls = "Trie"
    /\ packageJsonFilepathsArray = <<>>
    /\ root = EmptyObj
    /\ size = 0
    /\ partCaseMap = <<>>
    /\ op = NoCall
    /\ failed = FALSE
    /\ pending = <<>>
    /\ iterators = <<>>
    /\ created = <<>>

\* Requests to expandTildeImport in every version of it.
SpecRequests == (InitVersions \/ InitFirst) /\ [][NextExpander]_vars

\* C25: for every import specifier that does not start with '~',
\* expandTildeImport returns the specifier unchanged and never fails,
\* whatever the importer path is and even when no package root encloses
\* the importer; no trie query result influences the outcome, and the trie
\* is left as it was.
C25_PlainSpecifier ==
    (Called("expandTildeImport") /\ op.arg.head = "") =>
        /\ op.status = "return"
        /\ op.ret.value = op.arg
        /\ ~op.ret.warned
        /\ root = op.root0 /\ size = op.size0

\* C25 witness: a request with a specifier without '~' from an importer
\* that no stored package directory encloses, in an expander that has
\* package directories and has raised for an earlier request.
C25_Witness ==
    /\ Called("expandTildeImport")
    /\ op.arg.head = ""
    /\ op.status = "return"
    /\ packageJsonFilepathsArray # <<>>
    /\ ImporterPackageDirpathPartArrays = <<>>
    /\ failed

====
